---- MODULE Spec2Model ----
(***************************************************************************)
(* Model of stactools.sentinel2.stac: create_item (the item assembler)     *)
(* and image_asset_from_href (the asset classifier).                       *)
(*                                                                         *)
(* A Python str is the sequence of its code points (numbers in             *)
(* 0..1114111, lone surrogates included), so that indexing, slicing,       *)
(* searching, lower-casing and repr count and classify characters as       *)
(* Python does; Str("...") is the str of an ASCII literal.  Optional[X]    *)
(* is a sequence of length 0 (None) or 1 (Some(x)), dicts are functions    *)
(* when only the content matters and insertion-ordered sequences of        *)
(* <<key, value>> pairs where the order of insertion matters.  A call      *)
(* that raises yields a record whose status names the exception class and  *)
(* whose message is the argument of the exception.  The character tables   *)
(* are those of Unicode 14.0.0 (CPython 3.11).                             *)
(***************************************************************************)
EXTENDS Integers, Sequences, FiniteSets, TLC

VARIABLES fn, args, ret

vars == <<fn, args, ret>>

None == <<>>

Some(x) == <<x>>

(***************************************************************************)
(* Bounds                                                                  *)
(***************************************************************************)
MaxPaths == 2

(***************************************************************************)
(* Python str literals                                                     *)
(***************************************************************************)
\* the ASCII characters of code points 32..95
AsciiLow ==
    " !\"#$%&'()*+,-./0123456789:;<=>?@ABCDEFGHIJKLMNOPQRSTUVWXYZ[\\]^_"

\* the ASCII characters of code points 97..126
AsciiHigh == "abcdefghijklmnopqrstuvwxyz{|}~"

\* ord(c) of the one-character ASCII literals
Ord ==
    [c \in {SubSeq(AsciiLow, k, k) : k \in 1..Len(AsciiLow)}
            \cup {SubSeq(AsciiHigh, k, k) : k \in 1..Len(AsciiHigh)} |->
        IF \E k \in 1..Len(AsciiLow) : SubSeq(AsciiLow, k, k) = c
        THEN 31 + (CHOOSE k \in 1..Len(AsciiLow) : SubSeq(AsciiLow, k, k) = c)
        ELSE 96 + (CHOOSE k \in 1..Len(AsciiHigh) :
                        SubSeq(AsciiHigh, k, k) = c)]

\* the str that an ASCII literal of the source denotes
Str(literal) ==
    SubSeq([i \in 1..Len(literal) |-> Ord[SubSeq(literal, i, i)]],
           1, Len(literal))

(***************************************************************************)
(* Character tables of the Unicode database of the interpreter             *)
(*                                                                         *)
(* A class of characters is given by the sorted code points at which       *)
(* membership changes: the class is b1..(b2 - 1), b3..(b4 - 1), and so on. *)
(***************************************************************************)
\* the characters of the regular expression class \w of a str pattern
\* (str.isalnum() or "_")
WordChars ==
    {
     48, 58, 65, 91, 95, 96, 97, 123, 170, 171, 178, 180, 181, 182, 185,
     187, 188, 191, 192, 215, 216, 247, 248, 706, 710, 722, 736, 741, 748,
     749, 750, 751, 880, 885, 886, 888, 890, 894, 895, 896, 902, 903, 904,
     907, 908, 909, 910, 930, 931, 1014, 1015, 1154, 1162, 1328, 1329,
     1367, 1369, 1370, 1376, 1417, 1488, 1515, 1519, 1523, 1568, 1611,
     1632, 1642, 1646, 1648, 1649, 1748, 1749, 1750, 1765, 1767, 1774,
     1789, 1791, 1792, 1808, 1809, 1810, 1840, 1869, 1958, 1969, 1970,
     1984, 2027, 2036, 2038, 2042, 2043, 2048, 2070, 2074, 2075, 2084,
     2085, 2088, 2089, 2112, 2137, 2144, 2155, 2160, 2184, 2185, 2191,
     2208, 2250, 2308, 2362, 2365, 2366, 2384, 2385, 2392, 2402, 2406,
     2416, 2417, 2433, 2437, 2445, 2447, 2449, 2451, 2473, 2474, 2481,
     2482, 2483, 2486, 2490, 2493, 2494, 2510, 2511, 2524, 2526, 2527,
     2530, 2534, 2546, 2548, 2554, 2556, 2557, 2565, 2571, 2575, 2577,
     2579, 2601, 2602, 2609, 2610, 2612, 2613, 2615, 2616, 2618, 2649,
     2653, 2654, 2655, 2662, 2672, 2674, 2677, 2693, 2702, 2703, 2706,
     2707, 2729, 2730, 2737, 2738, 2740, 2741, 2746, 2749, 2750, 2768,
     2769, 2784, 2786, 2790, 2800, 2809, 2810, 2821, 2829, 2831, 2833,
     2835, 2857, 2858, 2865, 2866, 2868, 2869, 2874, 2877, 2878, 2908,
     2910, 2911, 2914, 2918, 2928, 2929, 2936, 2947, 2948, 2949, 2955,
     2958, 2961, 2962, 2966, 2969, 2971, 2972, 2973, 2974, 2976, 2979,
     2981, 2984, 2987, 2990, 3002, 3024, 3025, 3046, 3059, 3077, 3085,
     3086, 3089, 3090, 3113, 3114, 3130, 3133, 3134, 3160, 3163, 3165,
     3166, 3168, 3170, 3174, 3184, 3192, 3199, 3200, 3201, 3205, 3213,
     3214, 3217, 3218, 3241, 3242, 3252, 3253, 3258, 3261, 3262, 3293,
     3295, 3296, 3298, 3302, 3312, 3313, 3315, 3332, 3341, 3342, 3345,
     3346, 3387, 3389, 3390, 3406, 3407, 3412, 3415, 3416, 3426, 3430,
     3449, 3450, 3456, 3461, 3479, 3482, 3506, 3507, 3516, 3517, 3518,
     3520, 3527, 3558, 3568, 3585, 3633, 3634, 3636, 3648, 3655, 3664,
     3674, 3713, 3715, 3716, 3717, 3718, 3723, 3724, 3748, 3749, 3750,
     3751, 3761, 3762, 3764, 3773, 3774, 3776, 3781, 3782, 3783, 3792,
     3802, 3804, 3808, 3840, 3841, 3872, 3892, 3904, 3912, 3913, 3949,
     3976, 3981, 4096, 4139, 4159, 4170, 4176, 4182, 4186, 4190, 4193,
     4194, 4197, 4199, 4206, 4209, 4213, 4226, 4238, 4239, 4240, 4250,
     4256, 4294, 4295, 4296, 4301, 4302, 4304, 4347, 4348, 4681, 4682,
     4686, 4688, 4695, 4696, 4697, 4698, 4702, 4704, 4745, 4746, 4750,
     4752, 4785, 4786, 4790, 4792, 4799, 4800, 4801, 4802, 4806, 4808,
     4823, 4824, 4881, 4882, 4886, 4888, 4955, 4969, 4989, 4992, 5008,
     5024, 5110, 5112, 5118, 5121, 5741, 5743, 5760, 5761, 5787, 5792,
     5867, 5870, 5881, 5888, 5906, 5919, 5938, 5952, 5970, 5984, 5997,
     5998, 6001, 6016, 6068, 6103, 6104, 6108, 6109, 6112, 6122, 6128,
     6138, 6160, 6170, 6176, 6265, 6272, 6277, 6279, 6313, 6314, 6315,
     6320, 6390, 6400, 6431, 6470, 6510, 6512, 6517, 6528, 6572, 6576,
     6602, 6608, 6619, 6656, 6679, 6688, 6741, 6784, 6794, 6800, 6810,
     6823, 6824, 6917, 6964, 6981, 6989, 6992, 7002, 7043, 7073, 7086,
     7142, 7168, 7204, 7232, 7242, 7245, 7294, 7296, 7305, 7312, 7355,
     7357, 7360, 7401, 7405, 7406, 7412, 7413, 7415, 7418, 7419, 7424,
     7616, 7680, 7958, 7960, 7966, 7968, 8006, 8008, 8014, 8016, 8024,
     8025, 8026, 8027, 8028, 8029, 8030, 8031, 8062, 8064, 8117, 8118,
     8125, 8126, 8127, 8130, 8133, 8134, 8141, 8144, 8148, 8150, 8156,
     8160, 8173, 8178, 8181, 8182, 8189, 8304, 8306, 8308, 8314, 8319,
     8330, 8336, 8349, 8450, 8451, 8455, 8456, 8458, 8468, 8469, 8470,
     8473, 8478, 8484, 8485, 8486, 8487, 8488, 8489, 8490, 8494, 8495,
     8506, 8508, 8512, 8517, 8522, 8526, 8527, 8528, 8586, 9312, 9372,
     9450, 9472, 10102, 10132, 11264, 11493, 11499, 11503, 11506, 11508,
     11517, 11518, 11520, 11558, 11559, 11560, 11565, 11566, 11568, 11624,
     11631, 11632, 11648, 11671, 11680, 11687, 11688, 11695, 11696, 11703,
     11704, 11711, 11712, 11719, 11720, 11727, 11728, 11735, 11736, 11743,
     11823, 11824, 12293, 12296, 12321, 12330, 12337, 12342, 12344, 12349,
     12353, 12439, 12445, 12448, 12449, 12539, 12540, 12544, 12549, 12592,
     12593, 12687, 12690, 12694, 12704, 12736, 12784, 12800, 12832, 12842,
     12872, 12880, 12881, 12896, 12928, 12938, 12977, 12992, 13312, 19904,
     19968, 42125, 42192, 42238, 42240, 42509, 42512, 42540, 42560, 42607,
     42623, 42654, 42656, 42736, 42775, 42784, 42786, 42889, 42891, 42955,
     42960, 42962, 42963, 42964, 42965, 42970, 42994, 43010, 43011, 43014,
     43015, 43019, 43020, 43043, 43056, 43062, 43072, 43124, 43138, 43188,
     43216, 43226, 43250, 43256, 43259, 43260, 43261, 43263, 43264, 43302,
     43312, 43335, 43360, 43389, 43396, 43443, 43471, 43482, 43488, 43493,
     43494, 43519, 43520, 43561, 43584, 43587, 43588, 43596, 43600, 43610,
     43616, 43639, 43642, 43643, 43646, 43696, 43697, 43698, 43701, 43703,
     43705, 43710, 43712, 43713, 43714, 43715, 43739, 43742, 43744, 43755,
     43762, 43765, 43777, 43783, 43785, 43791, 43793, 43799, 43808, 43815,
     43816, 43823, 43824, 43867, 43868, 43882, 43888, 44003, 44016, 44026,
     44032, 55204, 55216, 55239, 55243, 55292, 63744, 64110, 64112, 64218,
     64256, 64263, 64275, 64280, 64285, 64286, 64287, 64297, 64298, 64311,
     64312, 64317, 64318, 64319, 64320, 64322, 64323, 64325, 64326, 64434,
     64467, 64830, 64848, 64912, 64914, 64968, 65008, 65020, 65136, 65141,
     65142, 65277, 65296, 65306, 65313, 65339, 65345, 65371, 65382, 65471,
     65474, 65480, 65482, 65488, 65490, 65496, 65498, 65501, 65536, 65548,
     65549, 65575, 65576, 65595, 65596, 65598, 65599, 65614, 65616, 65630,
     65664, 65787, 65799, 65844, 65856, 65913, 65930, 65932, 66176, 66205,
     66208, 66257, 66273, 66300, 66304, 66340, 66349, 66379, 66384, 66422,
     66432, 66462, 66464, 66500, 66504, 66512, 66513, 66518, 66560, 66718,
     66720, 66730, 66736, 66772, 66776, 66812, 66816, 66856, 66864, 66916,
     66928, 66939, 66940, 66955, 66956, 66963, 66964, 66966, 66967, 66978,
     66979, 66994, 66995, 67002, 67003, 67005, 67072, 67383, 67392, 67414,
     67424, 67432, 67456, 67462, 67463, 67505, 67506, 67515, 67584, 67590,
     67592, 67593, 67594, 67638, 67639, 67641, 67644, 67645, 67647, 67670,
     67672, 67703, 67705, 67743, 67751, 67760, 67808, 67827, 67828, 67830,
     67835, 67868, 67872, 67898, 67968, 68024, 68028, 68048, 68050, 68097,
     68112, 68116, 68117, 68120, 68121, 68150, 68160, 68169, 68192, 68223,
     68224, 68256, 68288, 68296, 68297, 68325, 68331, 68336, 68352, 68406,
     68416, 68438, 68440, 68467, 68472, 68498, 68521, 68528, 68608, 68681,
     68736, 68787, 68800, 68851, 68858, 68900, 68912, 68922, 69216, 69247,
     69248, 69290, 69296, 69298, 69376, 69416, 69424, 69446, 69457, 69461,
     69488, 69506, 69552, 69580, 69600, 69623, 69635, 69688, 69714, 69744,
     69745, 69747, 69749, 69750, 69763, 69808, 69840, 69865, 69872, 69882,
     69891, 69927, 69942, 69952, 69956, 69957, 69959, 69960, 69968, 70003,
     70006, 70007, 70019, 70067, 70081, 70085, 70096, 70107, 70108, 70109,
     70113, 70133, 70144, 70162, 70163, 70188, 70272, 70279, 70280, 70281,
     70282, 70286, 70287, 70302, 70303, 70313, 70320, 70367, 70384, 70394,
     70405, 70413, 70415, 70417, 70419, 70441, 70442, 70449, 70450, 70452,
     70453, 70458, 70461, 70462, 70480, 70481, 70493, 70498, 70656, 70709,
     70727, 70731, 70736, 70746, 70751, 70754, 70784, 70832, 70852, 70854,
     70855, 70856, 70864, 70874, 71040, 71087, 71128, 71132, 71168, 71216,
     71236, 71237, 71248, 71258, 71296, 71339, 71352, 71353, 71360, 71370,
     71424, 71451, 71472, 71484, 71488, 71495, 71680, 71724, 71840, 71923,
     71935, 71943, 71945, 71946, 71948, 71956, 71957, 71959, 71960, 71984,
     71999, 72000, 72001, 72002, 72016, 72026, 72096, 72104, 72106, 72145,
     72161, 72162, 72163, 72164, 72192, 72193, 72203, 72243, 72250, 72251,
     72272, 72273, 72284, 72330, 72349, 72350, 72368, 72441, 72704, 72713,
     72714, 72751, 72768, 72769, 72784, 72813, 72818, 72848, 72960, 72967,
     72968, 72970, 72971, 73009, 73030, 73031, 73040, 73050, 73056, 73062,
     73063, 73065, 73066, 73098, 73112, 73113, 73120, 73130, 73440, 73459,
     73648, 73649, 73664, 73685, 73728, 74650, 74752, 74863, 74880, 75076,
     77712, 77809, 77824, 78895, 82944, 83527, 92160, 92729, 92736, 92767,
     92768, 92778, 92784, 92863, 92864, 92874, 92880, 92910, 92928, 92976,
     92992, 92996, 93008, 93018, 93019, 93026, 93027, 93048, 93053, 93072,
     93760, 93847, 93952, 94027, 94032, 94033, 94099, 94112, 94176, 94178,
     94179, 94180, 94208, 100344, 100352, 101590, 101632, 101641, 110576,
     110580, 110581, 110588, 110589, 110591, 110592, 110883, 110928,
     110931, 110948, 110952, 110960, 111356, 113664, 113771, 113776,
     113789, 113792, 113801, 113808, 113818, 119520, 119540, 119648,
     119673, 119808, 119893, 119894, 119965, 119966, 119968, 119970,
     119971, 119973, 119975, 119977, 119981, 119982, 119994, 119995,
     119996, 119997, 120004, 120005, 120070, 120071, 120075, 120077,
     120085, 120086, 120093, 120094, 120122, 120123, 120127, 120128,
     120133, 120134, 120135, 120138, 120145, 120146, 120486, 120488,
     120513, 120514, 120539, 120540, 120571, 120572, 120597, 120598,
     120629, 120630, 120655, 120656, 120687, 120688, 120713, 120714,
     120745, 120746, 120771, 120772, 120780, 120782, 120832, 122624,
     122655, 123136, 123181, 123191, 123198, 123200, 123210, 123214,
     123215, 123536, 123566, 123584, 123628, 123632, 123642, 124896,
     124903, 124904, 124908, 124909, 124911, 124912, 124927, 124928,
     125125, 125127, 125136, 125184, 125252, 125259, 125260, 125264,
     125274, 126065, 126124, 126125, 126128, 126129, 126133, 126209,
     126254, 126255, 126270, 126464, 126468, 126469, 126496, 126497,
     126499, 126500, 126501, 126503, 126504, 126505, 126515, 126516,
     126520, 126521, 126522, 126523, 126524, 126530, 126531, 126535,
     126536, 126537, 126538, 126539, 126540, 126541, 126544, 126545,
     126547, 126548, 126549, 126551, 126552, 126553, 126554, 126555,
     126556, 126557, 126558, 126559, 126560, 126561, 126563, 126564,
     126565, 126567, 126571, 126572, 126579, 126580, 126584, 126585,
     126589, 126590, 126591, 126592, 126602, 126603, 126620, 126625,
     126628, 126629, 126634, 126635, 126652, 127232, 127245, 130032,
     130042, 131072, 173792, 173824, 177977, 177984, 178206, 178208,
     183970, 183984, 191457, 194560, 195102, 196608, 201547
    }

\* str.isprintable()
PrintableChars ==
    {
     32, 127, 161, 173, 174, 888, 890, 896, 900, 907, 908, 909, 910, 930,
     931, 1328, 1329, 1367, 1369, 1419, 1421, 1424, 1425, 1480, 1488,
     1515, 1519, 1525, 1542, 1564, 1565, 1757, 1758, 1806, 1808, 1867,
     1869, 1970, 1984, 2043, 2045, 2094, 2096, 2111, 2112, 2140, 2142,
     2143, 2144, 2155, 2160, 2191, 2200, 2274, 2275, 2436, 2437, 2445,
     2447, 2449, 2451, 2473, 2474, 2481, 2482, 2483, 2486, 2490, 2492,
     2501, 2503, 2505, 2507, 2511, 2519, 2520, 2524, 2526, 2527, 2532,
     2534, 2559, 2561, 2564, 2565, 2571, 2575, 2577, 2579, 2601, 2602,
     2609, 2610, 2612, 2613, 2615, 2616, 2618, 2620, 2621, 2622, 2627,
     2631, 2633, 2635, 2638, 2641, 2642, 2649, 2653, 2654, 2655, 2662,
     2679, 2689, 2692, 2693, 2702, 2703, 2706, 2707, 2729, 2730, 2737,
     2738, 2740, 2741, 2746, 2748, 2758, 2759, 2762, 2763, 2766, 2768,
     2769, 2784, 2788, 2790, 2802, 2809, 2816, 2817, 2820, 2821, 2829,
     2831, 2833, 2835, 2857, 2858, 2865, 2866, 2868, 2869, 2874, 2876,
     2885, 2887, 2889, 2891, 2894, 2901, 2904, 2908, 2910, 2911, 2916,
     2918, 2936, 2946, 2948, 2949, 2955, 2958, 2961, 2962, 2966, 2969,
     2971, 2972, 2973, 2974, 2976, 2979, 2981, 2984, 2987, 2990, 3002,
     3006, 3011, 3014, 3017, 3018, 3022, 3024, 3025, 3031, 3032, 3046,
     3067, 3072, 3085, 3086, 3089, 3090, 3113, 3114, 3130, 3132, 3141,
     3142, 3145, 3146, 3150, 3157, 3159, 3160, 3163, 3165, 3166, 3168,
     3172, 3174, 3184, 3191, 3213, 3214, 3217, 3218, 3241, 3242, 3252,
     3253, 3258, 3260, 3269, 3270, 3273, 3274, 3278, 3285, 3287, 3293,
     3295, 3296, 3300, 3302, 3312, 3313, 3315, 3328, 3341, 3342, 3345,
     3346, 3397, 3398, 3401, 3402, 3408, 3412, 3428, 3430, 3456, 3457,
     3460, 3461, 3479, 3482, 3506, 3507, 3516, 3517, 3518, 3520, 3527,
     3530, 3531, 3535, 3541, 3542, 3543, 3544, 3552, 3558, 3568, 3570,
     3573, 3585, 3643, 3647, 3676, 3713, 3715, 3716, 3717, 3718, 3723,
     3724, 3748, 3749, 3750, 3751, 3774, 3776, 3781, 3782, 3783, 3784,
     3790, 3792, 3802, 3804, 3808, 3840, 3912, 3913, 3949, 3953, 3992,
     3993, 4029, 4030, 4045, 4046, 4059, 4096, 4294, 4295, 4296, 4301,
     4302, 4304, 4681, 4682, 4686, 4688, 4695, 4696, 4697, 4698, 4702,
     4704, 4745, 4746, 4750, 4752, 4785, 4786, 4790, 4792, 4799, 4800,
     4801, 4802, 4806, 4808, 4823, 4824, 4881, 4882, 4886, 4888, 4955,
     4957, 4989, 4992, 5018, 5024, 5110, 5112, 5118, 5120, 5760, 5761,
     5789, 5792, 5881, 5888, 5910, 5919, 5943, 5952, 5972, 5984, 5997,
     5998, 6001, 6002, 6004, 6016, 6110, 6112, 6122, 6128, 6138, 6144,
     6158, 6159, 6170, 6176, 6265, 6272, 6315, 6320, 6390, 6400, 6431,
     6432, 6444, 6448, 6460, 6464, 6465, 6468, 6510, 6512, 6517, 6528,
     6572, 6576, 6602, 6608, 6619, 6622, 6684, 6686, 6751, 6752, 6781,
     6783, 6794, 6800, 6810, 6816, 6830, 6832, 6863, 6912, 6989, 6992,
     7039, 7040, 7156, 7164, 7224, 7227, 7242, 7245, 7305, 7312, 7355,
     7357, 7368, 7376, 7419, 7424, 7958, 7960, 7966, 7968, 8006, 8008,
     8014, 8016, 8024, 8025, 8026, 8027, 8028, 8029, 8030, 8031, 8062,
     8064, 8117, 8118, 8133, 8134, 8148, 8150, 8156, 8157, 8176, 8178,
     8181, 8182, 8191, 8208, 8232, 8240, 8287, 8304, 8306, 8308, 8335,
     8336, 8349, 8352, 8385, 8400, 8433, 8448, 8588, 8592, 9255, 9280,
     9291, 9312, 11124, 11126, 11158, 11159, 11508, 11513, 11558, 11559,
     11560, 11565, 11566, 11568, 11624, 11631, 11633, 11647, 11671, 11680,
     11687, 11688, 11695, 11696, 11703, 11704, 11711, 11712, 11719, 11720,
     11727, 11728, 11735, 11736, 11743, 11744, 11870, 11904, 11930, 11931,
     12020, 12032, 12246, 12272, 12284, 12289, 12352, 12353, 12439, 12441,
     12544, 12549, 12592, 12593, 12687, 12688, 12772, 12784, 12831, 12832,
     42125, 42128, 42183, 42192, 42540, 42560, 42744, 42752, 42955, 42960,
     42962, 42963, 42964, 42965, 42970, 42994, 43053, 43056, 43066, 43072,
     43128, 43136, 43206, 43214, 43226, 43232, 43348, 43359, 43389, 43392,
     43470, 43471, 43482, 43486, 43519, 43520, 43575, 43584, 43598, 43600,
     43610, 43612, 43715, 43739, 43767, 43777, 43783, 43785, 43791, 43793,
     43799, 43808, 43815, 43816, 43823, 43824, 43884, 43888, 44014, 44016,
     44026, 44032, 55204, 55216, 55239, 55243, 55292, 63744, 64110, 64112,
     64218, 64256, 64263, 64275, 64280, 64285, 64311, 64312, 64317, 64318,
     64319, 64320, 64322, 64323, 64325, 64326, 64451, 64467, 64912, 64914,
     64968, 64975, 64976, 65008, 65050, 65056, 65107, 65108, 65127, 65128,
     65132, 65136, 65141, 65142, 65277, 65281, 65471, 65474, 65480, 65482,
     65488, 65490, 65496, 65498, 65501, 65504, 65511, 65512, 65519, 65532,
     65534, 65536, 65548, 65549, 65575, 65576, 65595, 65596, 65598, 65599,
     65614, 65616, 65630, 65664, 65787, 65792, 65795, 65799, 65844, 65847,
     65935, 65936, 65949, 65952, 65953, 66000, 66046, 66176, 66205, 66208,
     66257, 66272, 66300, 66304, 66340, 66349, 66379, 66384, 66427, 66432,
     66462, 66463, 66500, 66504, 66518, 66560, 66718, 66720, 66730, 66736,
     66772, 66776, 66812, 66816, 66856, 66864, 66916, 66927, 66939, 66940,
     66955, 66956, 66963, 66964, 66966, 66967, 66978, 66979, 66994, 66995,
     67002, 67003, 67005, 67072, 67383, 67392, 67414, 67424, 67432, 67456,
     67462, 67463, 67505, 67506, 67515, 67584, 67590, 67592, 67593, 67594,
     67638, 67639, 67641, 67644, 67645, 67647, 67670, 67671, 67743, 67751,
     67760, 67808, 67827, 67828, 67830, 67835, 67868, 67871, 67898, 67903,
     67904, 67968, 68024, 68028, 68048, 68050, 68100, 68101, 68103, 68108,
     68116, 68117, 68120, 68121, 68150, 68152, 68155, 68159, 68169, 68176,
     68185, 68192, 68256, 68288, 68327, 68331, 68343, 68352, 68406, 68409,
     68438, 68440, 68467, 68472, 68498, 68505, 68509, 68521, 68528, 68608,
     68681, 68736, 68787, 68800, 68851, 68858, 68904, 68912, 68922, 69216,
     69247, 69248, 69290, 69291, 69294, 69296, 69298, 69376, 69416, 69424,
     69466, 69488, 69514, 69552, 69580, 69600, 69623, 69632, 69710, 69714,
     69750, 69759, 69821, 69822, 69827, 69840, 69865, 69872, 69882, 69888,
     69941, 69942, 69960, 69968, 70007, 70016, 70112, 70113, 70133, 70144,
     70162, 70163, 70207, 70272, 70279, 70280, 70281, 70282, 70286, 70287,
     70302, 70303, 70314, 70320, 70379, 70384, 70394, 70400, 70404, 70405,
     70413, 70415, 70417, 70419, 70441, 70442, 70449, 70450, 70452, 70453,
     70458, 70459, 70469, 70471, 70473, 70475, 70478, 70480, 70481, 70487,
     70488, 70493, 70500, 70502, 70509, 70512, 70517, 70656, 70748, 70749,
     70754, 70784, 70856, 70864, 70874, 71040, 71094, 71096, 71134, 71168,
     71237, 71248, 71258, 71264, 71277, 71296, 71354, 71360, 71370, 71424,
     71451, 71453, 71468, 71472, 71495, 71680, 71740, 71840, 71923, 71935,
     71943, 71945, 71946, 71948, 71956, 71957, 71959, 71960, 71990, 71991,
     71993, 71995, 72007, 72016, 72026, 72096, 72104, 72106, 72152, 72154,
     72165, 72192, 72264, 72272, 72355, 72368, 72441, 72704, 72713, 72714,
     72759, 72760, 72774, 72784, 72813, 72816, 72848, 72850, 72872, 72873,
     72887, 72960, 72967, 72968, 72970, 72971, 73015, 73018, 73019, 73020,
     73022, 73023, 73032, 73040, 73050, 73056, 73062, 73063, 73065, 73066,
     73103, 73104, 73106, 73107, 73113, 73120, 73130, 73440, 73465, 73648,
     73649, 73664, 73714, 73727, 74650, 74752, 74863, 74864, 74869, 74880,
     75076, 77712, 77811, 77824, 78895, 82944, 83527, 92160, 92729, 92736,
     92767, 92768, 92778, 92782, 92863, 92864, 92874, 92880, 92910, 92912,
     92918, 92928, 92998, 93008, 93018, 93019, 93026, 93027, 93048, 93053,
     93072, 93760, 93851, 93952, 94027, 94031, 94088, 94095, 94112, 94176,
     94181, 94192, 94194, 94208, 100344, 100352, 101590, 101632, 101641,
     110576, 110580, 110581, 110588, 110589, 110591, 110592, 110883,
     110928, 110931, 110948, 110952, 110960, 111356, 113664, 113771,
     113776, 113789, 113792, 113801, 113808, 113818, 113820, 113824,
     118528, 118574, 118576, 118599, 118608, 118724, 118784, 119030,
     119040, 119079, 119081, 119155, 119163, 119275, 119296, 119366,
     119520, 119540, 119552, 119639, 119648, 119673, 119808, 119893,
     119894, 119965, 119966, 119968, 119970, 119971, 119973, 119975,
     119977, 119981, 119982, 119994, 119995, 119996, 119997, 120004,
     120005, 120070, 120071, 120075, 120077, 120085, 120086, 120093,
     120094, 120122, 120123, 120127, 120128, 120133, 120134, 120135,
     120138, 120145, 120146, 120486, 120488, 120780, 120782, 121484,
     121499, 121504, 121505, 121520, 122624, 122655, 122880, 122887,
     122888, 122905, 122907, 122914, 122915, 122917, 122918, 122923,
     123136, 123181, 123184, 123198, 123200, 123210, 123214, 123216,
     123536, 123567, 123584, 123642, 123647, 123648, 124896, 124903,
     124904, 124908, 124909, 124911, 124912, 124927, 124928, 125125,
     125127, 125143, 125184, 125260, 125264, 125274, 125278, 125280,
     126065, 126133, 126209, 126270, 126464, 126468, 126469, 126496,
     126497, 126499, 126500, 126501, 126503, 126504, 126505, 126515,
     126516, 126520, 126521, 126522, 126523, 126524, 126530, 126531,
     126535, 126536, 126537, 126538, 126539, 126540, 126541, 126544,
     126545, 126547, 126548, 126549, 126551, 126552, 126553, 126554,
     126555, 126556, 126557, 126558, 126559, 126560, 126561, 126563,
     126564, 126565, 126567, 126571, 126572, 126579, 126580, 126584,
     126585, 126589, 126590, 126591, 126592, 126602, 126603, 126620,
     126625, 126628, 126629, 126634, 126635, 126652, 126704, 126706,
     126976, 127020, 127024, 127124, 127136, 127151, 127153, 127168,
     127169, 127184, 127185, 127222, 127232, 127406, 127462, 127491,
     127504, 127548, 127552, 127561, 127568, 127570, 127584, 127590,
     127744, 128728, 128733, 128749, 128752, 128765, 128768, 128884,
     128896, 128985, 128992, 129004, 129008, 129009, 129024, 129036,
     129040, 129096, 129104, 129114, 129120, 129160, 129168, 129198,
     129200, 129202, 129280, 129620, 129632, 129646, 129648, 129653,
     129656, 129661, 129664, 129671, 129680, 129709, 129712, 129723,
     129728, 129734, 129744, 129754, 129760, 129768, 129776, 129783,
     129792, 129939, 129940, 129995, 130032, 130042, 131072, 173792,
     173824, 177977, 177984, 178206, 178208, 183970, 183984, 191457,
     194560, 195102, 196608, 201547, 917760, 918000
    }

\* the characters with the Case_Ignorable property
CaseIgnorableChars ==
    {
     39, 40, 46, 47, 58, 59, 94, 95, 96, 97, 168, 169, 173, 174, 175, 176,
     180, 181, 183, 185, 688, 880, 884, 886, 890, 891, 900, 902, 903, 904,
     1155, 1162, 1369, 1370, 1375, 1376, 1425, 1470, 1471, 1472, 1473,
     1475, 1476, 1478, 1479, 1480, 1524, 1525, 1536, 1542, 1552, 1563,
     1564, 1565, 1600, 1601, 1611, 1632, 1648, 1649, 1750, 1758, 1759,
     1769, 1770, 1774, 1807, 1808, 1809, 1810, 1840, 1867, 1958, 1969,
     2027, 2038, 2042, 2043, 2045, 2046, 2070, 2094, 2137, 2140, 2184,
     2185, 2192, 2194, 2200, 2208, 2249, 2307, 2362, 2363, 2364, 2365,
     2369, 2377, 2381, 2382, 2385, 2392, 2402, 2404, 2417, 2418, 2433,
     2434, 2492, 2493, 2497, 2501, 2509, 2510, 2530, 2532, 2558, 2559,
     2561, 2563, 2620, 2621, 2625, 2627, 2631, 2633, 2635, 2638, 2641,
     2642, 2672, 2674, 2677, 2678, 2689, 2691, 2748, 2749, 2753, 2758,
     2759, 2761, 2765, 2766, 2786, 2788, 2810, 2816, 2817, 2818, 2876,
     2877, 2879, 2880, 2881, 2885, 2893, 2894, 2901, 2903, 2914, 2916,
     2946, 2947, 3008, 3009, 3021, 3022, 3072, 3073, 3076, 3077, 3132,
     3133, 3134, 3137, 3142, 3145, 3146, 3150, 3157, 3159, 3170, 3172,
     3201, 3202, 3260, 3261, 3263, 3264, 3270, 3271, 3276, 3278, 3298,
     3300, 3328, 3330, 3387, 3389, 3393, 3397, 3405, 3406, 3426, 3428,
     3457, 3458, 3530, 3531, 3538, 3541, 3542, 3543, 3633, 3634, 3636,
     3643, 3654, 3663, 3761, 3762, 3764, 3773, 3782, 3783, 3784, 3790,
     3864, 3866, 3893, 3894, 3895, 3896, 3897, 3898, 3953, 3967, 3968,
     3973, 3974, 3976, 3981, 3992, 3993, 4029, 4038, 4039, 4141, 4145,
     4146, 4152, 4153, 4155, 4157, 4159, 4184, 4186, 4190, 4193, 4209,
     4213, 4226, 4227, 4229, 4231, 4237, 4238, 4253, 4254, 4348, 4349,
     4957, 4960, 5906, 5909, 5938, 5940, 5970, 5972, 6002, 6004, 6068,
     6070, 6071, 6078, 6086, 6087, 6089, 6100, 6103, 6104, 6109, 6110,
     6155, 6160, 6211, 6212, 6277, 6279, 6313, 6314, 6432, 6435, 6439,
     6441, 6450, 6451, 6457, 6460, 6679, 6681, 6683, 6684, 6742, 6743,
     6744, 6751, 6752, 6753, 6754, 6755, 6757, 6765, 6771, 6781, 6783,
     6784, 6823, 6824, 6832, 6863, 6912, 6916, 6964, 6965, 6966, 6971,
     6972, 6973, 6978, 6979, 7019, 7028, 7040, 7042, 7074, 7078, 7080,
     7082, 7083, 7086, 7142, 7143, 7144, 7146, 7149, 7150, 7151, 7154,
     7212, 7220, 7222, 7224, 7288, 7294, 7376, 7379, 7380, 7393, 7394,
     7401, 7405, 7406, 7412, 7413, 7416, 7418, 7468, 7531, 7544, 7545,
     7579, 7680, 8125, 8126, 8127, 8130, 8141, 8144, 8157, 8160, 8173,
     8176, 8189, 8191, 8203, 8208, 8216, 8218, 8228, 8229, 8231, 8232,
     8234, 8239, 8288, 8293, 8294, 8304, 8305, 8306, 8319, 8320, 8336,
     8349, 8400, 8433, 11388, 11390, 11503, 11506, 11631, 11632, 11647,
     11648, 11744, 11776, 11823, 11824, 12293, 12294, 12330, 12334, 12337,
     12342, 12347, 12348, 12441, 12447, 12540, 12543, 40981, 40982, 42232,
     42238, 42508, 42509, 42607, 42611, 42612, 42622, 42623, 42624, 42652,
     42656, 42736, 42738, 42752, 42786, 42864, 42865, 42888, 42891, 42994,
     42997, 43000, 43002, 43010, 43011, 43014, 43015, 43019, 43020, 43045,
     43047, 43052, 43053, 43204, 43206, 43232, 43250, 43263, 43264, 43302,
     43310, 43335, 43346, 43392, 43395, 43443, 43444, 43446, 43450, 43452,
     43454, 43471, 43472, 43493, 43495, 43561, 43567, 43569, 43571, 43573,
     43575, 43587, 43588, 43596, 43597, 43632, 43633, 43644, 43645, 43696,
     43697, 43698, 43701, 43703, 43705, 43710, 43712, 43713, 43714, 43741,
     43742, 43756, 43758, 43763, 43765, 43766, 43767, 43867, 43872, 43881,
     43884, 44005, 44006, 44008, 44009, 44013, 44014, 64286, 64287, 64434,
     64451, 65024, 65040, 65043, 65044, 65056, 65072, 65106, 65107, 65109,
     65110, 65279, 65280, 65287, 65288, 65294, 65295, 65306, 65307, 65342,
     65343, 65344, 65345, 65392, 65393, 65438, 65440, 65507, 65508, 65529,
     65532, 66045, 66046, 66272, 66273, 66422, 66427, 67456, 67462, 67463,
     67505, 67506, 67515, 68097, 68100, 68101, 68103, 68108, 68112, 68152,
     68155, 68159, 68160, 68325, 68327, 68900, 68904, 69291, 69293, 69446,
     69457, 69506, 69510, 69633, 69634, 69688, 69703, 69744, 69745, 69747,
     69749, 69759, 69762, 69811, 69815, 69817, 69819, 69821, 69822, 69826,
     69827, 69837, 69838, 69888, 69891, 69927, 69932, 69933, 69941, 70003,
     70004, 70016, 70018, 70070, 70079, 70089, 70093, 70095, 70096, 70191,
     70194, 70196, 70197, 70198, 70200, 70206, 70207, 70367, 70368, 70371,
     70379, 70400, 70402, 70459, 70461, 70464, 70465, 70502, 70509, 70512,
     70517, 70712, 70720, 70722, 70725, 70726, 70727, 70750, 70751, 70835,
     70841, 70842, 70843, 70847, 70849, 70850, 70852, 71090, 71094, 71100,
     71102, 71103, 71105, 71132, 71134, 71219, 71227, 71229, 71230, 71231,
     71233, 71339, 71340, 71341, 71342, 71344, 71350, 71351, 71352, 71453,
     71456, 71458, 71462, 71463, 71468, 71727, 71736, 71737, 71739, 71995,
     71997, 71998, 71999, 72003, 72004, 72148, 72152, 72154, 72156, 72160,
     72161, 72193, 72203, 72243, 72249, 72251, 72255, 72263, 72264, 72273,
     72279, 72281, 72284, 72330, 72343, 72344, 72346, 72752, 72759, 72760,
     72766, 72767, 72768, 72850, 72872, 72874, 72881, 72882, 72884, 72885,
     72887, 73009, 73015, 73018, 73019, 73020, 73022, 73023, 73030, 73031,
     73032, 73104, 73106, 73109, 73110, 73111, 73112, 73459, 73461, 78896,
     78905, 92912, 92917, 92976, 92983, 92992, 92996, 94031, 94032, 94095,
     94112, 94176, 94178, 94179, 94181, 110576, 110580, 110581, 110588,
     110589, 110591, 113821, 113823, 113824, 113828, 118528, 118574,
     118576, 118599, 119143, 119146, 119155, 119171, 119173, 119180,
     119210, 119214, 119362, 119365, 121344, 121399, 121403, 121453,
     121461, 121462, 121476, 121477, 121499, 121504, 121505, 121520,
     122880, 122887, 122888, 122905, 122907, 122914, 122915, 122917,
     122918, 122923, 123184, 123198, 123566, 123567, 123628, 123632,
     125136, 125143, 125252, 125260, 127995, 128000, 917505, 917506,
     917536, 917632, 917760, 918000
    }

\* the characters with the Cased property
CasedChars ==
    {
     65, 91, 97, 123, 170, 171, 181, 182, 186, 187, 192, 215, 216, 247,
     248, 443, 444, 448, 452, 660, 661, 697, 704, 706, 736, 741, 837, 838,
     880, 884, 886, 888, 890, 894, 895, 896, 902, 903, 904, 907, 908, 909,
     910, 930, 931, 1014, 1015, 1154, 1162, 1328, 1329, 1367, 1376, 1417,
     4256, 4294, 4295, 4296, 4301, 4302, 4304, 4347, 4349, 4352, 5024,
     5110, 5112, 5118, 7296, 7305, 7312, 7355, 7357, 7360, 7424, 7616,
     7680, 7958, 7960, 7966, 7968, 8006, 8008, 8014, 8016, 8024, 8025,
     8026, 8027, 8028, 8029, 8030, 8031, 8062, 8064, 8117, 8118, 8125,
     8126, 8127, 8130, 8133, 8134, 8141, 8144, 8148, 8150, 8156, 8160,
     8173, 8178, 8181, 8182, 8189, 8305, 8306, 8319, 8320, 8336, 8349,
     8450, 8451, 8455, 8456, 8458, 8468, 8469, 8470, 8473, 8478, 8484,
     8485, 8486, 8487, 8488, 8489, 8490, 8494, 8495, 8501, 8505, 8506,
     8508, 8512, 8517, 8522, 8526, 8527, 8544, 8576, 8579, 8581, 9398,
     9450, 11264, 11493, 11499, 11503, 11506, 11508, 11520, 11558, 11559,
     11560, 11565, 11566, 42560, 42606, 42624, 42654, 42786, 42888, 42891,
     42895, 42896, 42955, 42960, 42962, 42963, 42964, 42965, 42970, 42997,
     42999, 43000, 43003, 43824, 43867, 43868, 43881, 43888, 43968, 64256,
     64263, 64275, 64280, 65313, 65339, 65345, 65371, 66560, 66640, 66736,
     66772, 66776, 66812, 66928, 66939, 66940, 66955, 66956, 66963, 66964,
     66966, 66967, 66978, 66979, 66994, 66995, 67002, 67003, 67005, 67456,
     67457, 67459, 67462, 67463, 67505, 67506, 67515, 68736, 68787, 68800,
     68851, 71840, 71904, 93760, 93824, 119808, 119893, 119894, 119965,
     119966, 119968, 119970, 119971, 119973, 119975, 119977, 119981,
     119982, 119994, 119995, 119996, 119997, 120004, 120005, 120070,
     120071, 120075, 120077, 120085, 120086, 120093, 120094, 120122,
     120123, 120127, 120128, 120133, 120134, 120135, 120138, 120145,
     120146, 120486, 120488, 120513, 120514, 120539, 120540, 120571,
     120572, 120597, 120598, 120629, 120630, 120655, 120656, 120687,
     120688, 120713, 120714, 120745, 120746, 120771, 120772, 120780,
     122624, 122634, 122635, 122655, 125184, 125252, 127280, 127306,
     127312, 127338, 127344, 127370
    }

\* the characters that str.lower() maps to one other character: every
\* step-th code point of first..last maps to the code point as far from
\* it as lower is from first, <<first, last, step, lower>>
LowerRuns ==
    {
     <<65, 90, 1, 97>>, <<192, 214, 1, 224>>, <<216, 222, 1, 248>>, <<256,
     302, 2, 257>>, <<306, 310, 2, 307>>, <<313, 327, 2, 314>>, <<330,
     374, 2, 331>>, <<376, 376, 1, 255>>, <<377, 381, 2, 378>>, <<385,
     385, 1, 595>>, <<386, 388, 2, 387>>, <<390, 390, 1, 596>>, <<391,
     391, 1, 392>>, <<393, 394, 1, 598>>, <<395, 395, 1, 396>>, <<398,
     398, 1, 477>>, <<399, 399, 1, 601>>, <<400, 400, 1, 603>>, <<401,
     401, 1, 402>>, <<403, 403, 1, 608>>, <<404, 404, 1, 611>>, <<406,
     406, 1, 617>>, <<407, 407, 1, 616>>, <<408, 408, 1, 409>>, <<412,
     412, 1, 623>>, <<413, 413, 1, 626>>, <<415, 415, 1, 629>>, <<416,
     420, 2, 417>>, <<422, 422, 1, 640>>, <<423, 423, 1, 424>>, <<425,
     425, 1, 643>>, <<428, 428, 1, 429>>, <<430, 430, 1, 648>>, <<431,
     431, 1, 432>>, <<433, 434, 1, 650>>, <<435, 437, 2, 436>>, <<439,
     439, 1, 658>>, <<440, 440, 1, 441>>, <<444, 444, 1, 445>>, <<452,
     452, 1, 454>>, <<453, 453, 1, 454>>, <<455, 455, 1, 457>>, <<456,
     456, 1, 457>>, <<458, 458, 1, 460>>, <<459, 475, 2, 460>>, <<478,
     494, 2, 479>>, <<497, 497, 1, 499>>, <<498, 500, 2, 499>>, <<502,
     502, 1, 405>>, <<503, 503, 1, 447>>, <<504, 542, 2, 505>>, <<544,
     544, 1, 414>>, <<546, 562, 2, 547>>, <<570, 570, 1, 11365>>, <<571,
     571, 1, 572>>, <<573, 573, 1, 410>>, <<574, 574, 1, 11366>>, <<577,
     577, 1, 578>>, <<579, 579, 1, 384>>, <<580, 580, 1, 649>>, <<581,
     581, 1, 652>>, <<582, 590, 2, 583>>, <<880, 882, 2, 881>>, <<886,
     886, 1, 887>>, <<895, 895, 1, 1011>>, <<902, 902, 1, 940>>, <<904,
     906, 1, 941>>, <<908, 908, 1, 972>>, <<910, 911, 1, 973>>, <<913,
     929, 1, 945>>, <<931, 939, 1, 963>>, <<975, 975, 1, 983>>, <<984,
     1006, 2, 985>>, <<1012, 1012, 1, 952>>, <<1015, 1015, 1, 1016>>,
     <<1017, 1017, 1, 1010>>, <<1018, 1018, 1, 1019>>, <<1021, 1023, 1,
     891>>, <<1024, 1039, 1, 1104>>, <<1040, 1071, 1, 1072>>, <<1120,
     1152, 2, 1121>>, <<1162, 1214, 2, 1163>>, <<1216, 1216, 1, 1231>>,
     <<1217, 1229, 2, 1218>>, <<1232, 1326, 2, 1233>>, <<1329, 1366, 1,
     1377>>, <<4256, 4293, 1, 11520>>, <<4295, 4295, 1, 11559>>, <<4301,
     4301, 1, 11565>>, <<5024, 5103, 1, 43888>>, <<5104, 5109, 1, 5112>>,
     <<7312, 7354, 1, 4304>>, <<7357, 7359, 1, 4349>>, <<7680, 7828, 2,
     7681>>, <<7838, 7838, 1, 223>>, <<7840, 7934, 2, 7841>>, <<7944,
     7951, 1, 7936>>, <<7960, 7965, 1, 7952>>, <<7976, 7983, 1, 7968>>,
     <<7992, 7999, 1, 7984>>, <<8008, 8013, 1, 8000>>, <<8025, 8031, 2,
     8017>>, <<8040, 8047, 1, 8032>>, <<8072, 8079, 1, 8064>>, <<8088,
     8095, 1, 8080>>, <<8104, 8111, 1, 8096>>, <<8120, 8121, 1, 8112>>,
     <<8122, 8123, 1, 8048>>, <<8124, 8124, 1, 8115>>, <<8136, 8139, 1,
     8050>>, <<8140, 8140, 1, 8131>>, <<8152, 8153, 1, 8144>>, <<8154,
     8155, 1, 8054>>, <<8168, 8169, 1, 8160>>, <<8170, 8171, 1, 8058>>,
     <<8172, 8172, 1, 8165>>, <<8184, 8185, 1, 8056>>, <<8186, 8187, 1,
     8060>>, <<8188, 8188, 1, 8179>>, <<8486, 8486, 1, 969>>, <<8490,
     8490, 1, 107>>, <<8491, 8491, 1, 229>>, <<8498, 8498, 1, 8526>>,
     <<8544, 8559, 1, 8560>>, <<8579, 8579, 1, 8580>>, <<9398, 9423, 1,
     9424>>, <<11264, 11311, 1, 11312>>, <<11360, 11360, 1, 11361>>,
     <<11362, 11362, 1, 619>>, <<11363, 11363, 1, 7549>>, <<11364, 11364,
     1, 637>>, <<11367, 11371, 2, 11368>>, <<11373, 11373, 1, 593>>,
     <<11374, 11374, 1, 625>>, <<11375, 11375, 1, 592>>, <<11376, 11376,
     1, 594>>, <<11378, 11378, 1, 11379>>, <<11381, 11381, 1, 11382>>,
     <<11390, 11391, 1, 575>>, <<11392, 11490, 2, 11393>>, <<11499, 11501,
     2, 11500>>, <<11506, 11506, 1, 11507>>, <<42560, 42604, 2, 42561>>,
     <<42624, 42650, 2, 42625>>, <<42786, 42798, 2, 42787>>, <<42802,
     42862, 2, 42803>>, <<42873, 42875, 2, 42874>>, <<42877, 42877, 1,
     7545>>, <<42878, 42886, 2, 42879>>, <<42891, 42891, 1, 42892>>,
     <<42893, 42893, 1, 613>>, <<42896, 42898, 2, 42897>>, <<42902, 42920,
     2, 42903>>, <<42922, 42922, 1, 614>>, <<42923, 42923, 1, 604>>,
     <<42924, 42924, 1, 609>>, <<42925, 42925, 1, 620>>, <<42926, 42926,
     1, 618>>, <<42928, 42928, 1, 670>>, <<42929, 42929, 1, 647>>,
     <<42930, 42930, 1, 669>>, <<42931, 42931, 1, 43859>>, <<42932, 42946,
     2, 42933>>, <<42948, 42948, 1, 42900>>, <<42949, 42949, 1, 642>>,
     <<42950, 42950, 1, 7566>>, <<42951, 42953, 2, 42952>>, <<42960,
     42960, 1, 42961>>, <<42966, 42968, 2, 42967>>, <<42997, 42997, 1,
     42998>>, <<65313, 65338, 1, 65345>>, <<66560, 66599, 1, 66600>>,
     <<66736, 66771, 1, 66776>>, <<66928, 66928, 2, 66967>>, <<66929,
     66938, 1, 66968>>, <<66940, 66954, 1, 66979>>, <<66956, 66962, 1,
     66995>>, <<66964, 66965, 1, 67003>>, <<68736, 68786, 1, 68800>>,
     <<71840, 71871, 1, 71872>>, <<93760, 93791, 1, 93792>>, <<125184,
     125217, 1, 125218>>
    }

\* whether c is in the class with the boundaries bounds
InClass(c, bounds) == Cardinality({b \in bounds : b <= c}) % 2 = 1

\* the regular expression class \w
IsWordChar(c) == InClass(c, WordChars)

IsPrintable(c) == InClass(c, PrintableChars)

IsCaseIgnorable(c) == InClass(c, CaseIgnorableChars)

IsCased(c) == InClass(c, CasedChars)

IsDigit(c) == 48 <= c /\ c <= 57

(***************************************************************************)
(* Python str operations                                                   *)
(***************************************************************************)
CharAt(s, i) == s[i]

\* `sub in s`
Contains(s, sub) ==
    \E i \in 1..(Len(s) - Len(sub) + 1) : SubSeq(s, i, i + Len(sub) - 1) = sub

Max(a, b) == IF a >= b THEN a ELSE b

Min(a, b) == IF a <= b THEN a ELSE b

\* whether the capital sigma at index i of s lower-cases to the final
\* form: a cased character precedes it and none follows it, case-ignorable
\* characters skipped on both sides
IsFinalSigma(s, i) ==
    LET before == {j \in 1..(i - 1) : ~IsCaseIgnorable(s[j])}
        after  == {j \in (i + 1)..Len(s) : ~IsCaseIgnorable(s[j])}
    IN  /\ before # {}
        /\ IsCased(s[CHOOSE j \in before : \A k \in before : k <= j])
        /\ \/ after = {}
           \/ ~IsCased(s[CHOOSE j \in after : \A k \in after : j <= k])

\* whether c is a character of the run r of LowerRuns
InRun(c, r) == r[1] <= c /\ c <= r[2] /\ (c - r[1]) % r[3] = 0

\* the lower-case form of the character at index i of s
LowerChar(s, i) ==
    LET c == s[i]
    IN  IF c = 931 THEN (IF IsFinalSigma(s, i) THEN <<962>> ELSE <<963>>)
        ELSE IF c = 304 THEN <<105, 775>>
        ELSE IF \E r \in LowerRuns : InRun(c, r)
        THEN LET r == CHOOSE run \in LowerRuns : InRun(c, run)
             IN  <<c + r[4] - r[1]>>
        ELSE <<c>>

RECURSIVE LowerFrom(_, _)
\* the lower-case forms of the characters of s from index i on
LowerFrom(s, i) ==
    IF i > Len(s) THEN <<>> ELSE LowerChar(s, i) \o LowerFrom(s, i + 1)

\* s.lower()
Lower(s) == LowerFrom(s, 1)

HexDigits == Str("0123456789abcdef")

\* c as n lower-case hexadecimal digits
Hex(c, n) ==
    SubSeq([k \in 1..n |-> HexDigits[((c \div (16 ^ (n - k))) % 16) + 1]],
           1, n)

\* the text of character c in repr(s) between quotes of character quote
ReprChar(c, quote) ==
    IF c = quote \/ c = 92 THEN <<92, c>>
    ELSE IF c = 9 THEN Str("\\t")
    ELSE IF c = 10 THEN Str("\\n")
    ELSE IF c = 13 THEN Str("\\r")
    ELSE IF c < 32 \/ c = 127 THEN Str("\\x") \o Hex(c, 2)
    ELSE IF c < 127 \/ IsPrintable(c) THEN <<c>>
    ELSE IF c <= 255 THEN Str("\\x") \o Hex(c, 2)
    ELSE IF c <= 65535 THEN Str("\\u") \o Hex(c, 4)
    ELSE Str("\\U") \o Hex(c, 8)

RECURSIVE ReprFrom(_, _, _)
\* the texts in repr(s) of the characters of s from index i on
ReprFrom(s, i, quote) ==
    IF i > Len(s) THEN <<>>
    ELSE ReprChar(s[i], quote) \o ReprFrom(s, i + 1, quote)

\* repr(s): double quotes when s holds a single quote and no double quote
PyRepr(s) ==
    LET quote == IF (\E i \in 1..Len(s) : s[i] = 39)
                    /\ ~(\E i \in 1..Len(s) : s[i] = 34)
                 THEN 34 ELSE 39
    IN  <<quote>> \o ReprFrom(s, 1, quote) \o <<quote>>

\* s[start:stop] with Python's index normalisation (0-based, negative
\* indexes count from the end and are clamped)
PySlice(s, start, stop) ==
    LET n  == Len(s)
        lo == IF start < 0 THEN Max(n + start, 0) ELSE Min(start, n)
        hi == IF stop < 0 THEN Max(n + stop, 0) ELSE Min(stop, n)
    IN  SubSeq(s, lo + 1, hi)

\* the largest index of character c in s, 0 when absent (str.rfind + 1)
LastIndexOf(s, c) ==
    IF \E i \in 1..Len(s) : s[i] = c
    THEN CHOOSE i \in 1..Len(s) :
            /\ s[i] = c
            /\ \A j \in (i + 1)..Len(s) : s[j] # c
    ELSE 0

\* os.path.splitext (posixpath): the extension starts at the last dot of
\* the last path component, unless only dots precede it in that component
SplitExt(p) ==
    LET sepIndex == LastIndexOf(p, 47)
        dotIndex == LastIndexOf(p, 46)
    IN  IF /\ dotIndex > sepIndex
           /\ \E k \in (sepIndex + 1)..(dotIndex - 1) : p[k] # 46
        THEN <<SubSeq(p, 1, dotIndex - 1), SubSeq(p, dotIndex, Len(p))>>
        ELSE <<p, <<>> >>

\* os.path.join(a, b) (posixpath)
OsPathJoin(a, b) ==
    IF Len(b) > 0 /\ b[1] = 47 THEN b
    ELSE IF Len(a) = 0 \/ a[Len(a)] = 47 THEN a \o b
    ELSE a \o <<47>> \o b

RECURSIVE ParseInt(_)
\* int() of a string of decimal digits
ParseInt(s) ==
    IF Len(s) = 0 THEN 0
    ELSE 10 * ParseInt(SubSeq(s, 1, Len(s) - 1)) + (s[Len(s)] - 48)

(***************************************************************************)
(* Collaborators: constants, utils.extract_gsd, core transform_from_bbox   *)
(***************************************************************************)
JPEG2000 == Str("image/jp2")

GEOTIFF == Str("image/tiff; application=geotiff")

COG == Str("image/tiff; application=geotiff; profile=cloud-optimized")

XML == Str("application/xml")

BandIds ==
    {Str(b) : b \in {"B01", "B02", "B03", "B04", "B05", "B06", "B07", "B08",
                     "B8A", "B09", "B10", "B11", "B12"}}

\* the band table, keyed by band code
SENTINEL_BANDS ==
    [b \in BandIds |-> [name |-> b, description |-> Str("Band ") \o b]]

SENTINEL_PROVIDER == Str("ESA")

SENTINEL_LICENSE == Str("license")

SENTINEL_CONSTELLATION == Str("Sentinel 2")

SENTINEL_INSTRUMENTS == <<Str("msi")>>

SAFE_MANIFEST_ASSET_KEY == Str("safe-manifest")

PRODUCT_METADATA_ASSET_KEY == Str("product-metadata")

GRANULE_METADATA_ASSET_KEY == Str("granule-metadata")

INSPIRE_METADATA_ASSET_KEY == Str("inspire-metadata")

DATASTRIP_METADATA_ASSET_KEY == Str("datastrip-metadata")

\* the positions where a run of digits followed by "m" starts
GsdStarts(s) ==
    {i \in 1..Len(s) :
        /\ IsDigit(s[i])
        /\ i = 1 \/ ~IsDigit(s[i - 1])
        /\ \E j \in i..(Len(s) - 1) :
              /\ \A k \in i..j : IsDigit(s[k])
              /\ s[j + 1] = 109}

\* extract_gsd: the ground-sample-distance encoded in the file name, in
\* metres; None stands for the failure to find one
ExtractGsd(s) ==
    IF GsdStarts(s) = {} THEN None
    ELSE LET i == CHOOSE a \in GsdStarts(s) : \A b \in GsdStarts(s) : a <= b
             j == CHOOSE e \in i..(Len(s) - 1) :
                     /\ \A k \in i..e : IsDigit(s[k])
                     /\ s[e + 1] = 109
         IN  Some(ParseInt(SubSeq(s, i, j)))

\* a quotient of two numbers, kept unevaluated (the code computes floats)
Ratio(n, d) == [num |-> n, den |-> d]

\* transform_from_bbox: the affine geotransform of a raster of the given
\* shape (rows, cols) covering bbox (west, south, east, north)
TransformFromBbox(bbox, shape) ==
    <<Ratio(bbox[3] - bbox[1], shape[2]), 0, bbox[1],
      0, Ratio(bbox[2] - bbox[4], shape[1]), bbox[4]>>

(***************************************************************************)
(* image_asset_from_href                                                   *)
(***************************************************************************)
Raise(exception, message) ==
    [status |-> exception, message |-> message]

Return(key, asset) ==
    [status |-> "ok", key |-> key, asset |-> asset]

\* the media type with the extension consulted before the supplied type
AssetMediaType_ExtensionFirst(asset_href, media_type) ==
    LET ext == SplitExt(asset_href)[2]
    IN  IF Lower(ext) = Str(".jp2") THEN Some(JPEG2000)
        ELSE IF Lower(ext) \in {Str(".tiff"), Str(".tif")}
        THEN Some(GEOTIFF)
        ELSE media_type

\* lines 151-161: the supplied media type, else one inferred from the
\* extension, else None (the caller of this operator raises)
AssetMediaType(asset_href, media_type) ==
    LET ext == SplitExt(asset_href)[2]
    IN  IF media_type # None THEN media_type
        ELSE IF Lower(ext) = Str(".jp2") THEN Some(JPEG2000)
        ELSE IF Lower(ext) \in {Str(".tiff"), Str(".tif")}
        THEN Some(GEOTIFF)
        ELSE None

\* the positions of s where the pattern _B\w{2}_ matches
BandPatternMatches(s) ==
    {i \in 1..(Len(s) - 4) :
        /\ s[i] = 95
        /\ s[i + 1] = 66
        /\ IsWordChar(s[i + 2])
        /\ IsWordChar(s[i + 3])
        /\ s[i + 4] = 95}

\* the preview test placed after the band rule
IsPreview_AfterBandRule(asset_href) ==
    /\ Contains(asset_href, Str("_PVI"))
    /\ BandPatternMatches(asset_href) = {}

\* line 165
IsPreview(asset_href) == Contains(asset_href, Str("_PVI"))

\* the search with a pattern that matches the codes of the band table only
BandIdSearch_KnownCodesOnly(asset_href) ==
    LET matches == {i \in 1..(Len(asset_href) - 4) :
                       /\ asset_href[i] = 95
                       /\ SubSeq(asset_href, i + 1, i + 3) \in BandIds
                       /\ asset_href[i + 4] = 95}
    IN  IF matches = {} THEN None
        ELSE LET i == CHOOSE a \in matches : \A b \in matches : a <= b
             IN  Some(SubSeq(asset_href, i + 1, i + 3))

\* line 190: re.search(r'_(B\w{2})_', asset_href), group 1 of the leftmost
\* match, None when there is no match
BandIdSearch(asset_href) ==
    LET matches == BandPatternMatches(asset_href)
    IN  IF matches = {} THEN None
        ELSE LET i == CHOOSE a \in matches : \A b \in matches : a <= b
             IN  Some(SubSeq(asset_href, i + 1, i + 3))

\* pystac.Asset(href, media_type, title, roles), no extension fields set
Asset(href, media_type, title, roles) ==
    [href |-> href, media_type |-> media_type, title |-> title,
     roles |-> roles, eo_bands |-> None, gsd |-> None,
     proj_shape |-> None, proj_bbox |-> None, proj_transform |-> None]

\* asset_eo.bands = [...]
SetBands(asset, band_ids) ==
    [asset EXCEPT !.eo_bands = Some([i \in 1..Len(band_ids) |->
                                        SENTINEL_BANDS[band_ids[i]]])]

\* the annotation with the shape left out
SetAssetProperties_NoShape(asset, gsd, shape, proj_bbox, transform) ==
    [asset EXCEPT !.gsd = Some(gsd),
                  !.proj_bbox = Some(proj_bbox),
                  !.proj_transform = Some(transform)]

\* lines 181-186
SetAssetProperties(asset, gsd, shape, proj_bbox, transform) ==
    [asset EXCEPT !.gsd = Some(gsd),
                  !.proj_shape = Some(shape),
                  !.proj_bbox = Some(proj_bbox),
                  !.proj_transform = Some(transform)]

\* lines 216, 225, 234, 243
SuffixKey(prefix, asset_href) == prefix \o PySlice(asset_href, -7, -4)

\* lines 172 and 213: the bands of a true-color image
RgbBands == <<Str("B04"), Str("B03"), Str("B02")>>

\* lines 188-245: the rules after the ground-sample-distance was found
BandOrAuxiliaryAsset(asset_href, asset_media_type, gsd, shape, proj_bbox, transform) ==
    LET band_id_search == BandIdSearch(asset_href)
        Annotated(asset) ==
            SetAssetProperties(asset, gsd, shape, proj_bbox, transform)
        data == <<Str("data")>>
    IN  IF band_id_search # None
        THEN LET band_id == band_id_search[1]
             IN  IF band_id \notin DOMAIN SENTINEL_BANDS
                 THEN Raise("KeyError", band_id)
                 ELSE Return(band_id,
                        Annotated(SetBands(
                            Asset(asset_href, asset_media_type,
                                  SENTINEL_BANDS[band_id].description, data),
                            <<band_id>>)))
        ELSE IF Contains(asset_href, Str("_TCI_"))
        THEN Return(SuffixKey(Str("visual-"), asset_href),
                    Annotated(SetBands(
                        Asset(asset_href, asset_media_type,
                              Str("True color image"), data), RgbBands)))
        ELSE IF Contains(asset_href, Str("_AOT_"))
        THEN Return(SuffixKey(Str("AOT-"), asset_href),
                    Annotated(Asset(asset_href, asset_media_type,
                                    Str("Aerosol optical thickness (AOT)"),
                                    data)))
        ELSE IF Contains(asset_href, Str("_WVP_"))
        THEN Return(SuffixKey(Str("WVP-"), asset_href),
                    Annotated(Asset(asset_href, asset_media_type,
                                    Str("Water vapour (WVP)"), data)))
        ELSE IF Contains(asset_href, Str("_SCL_"))
        THEN Return(SuffixKey(Str("SCL-"), asset_href),
                    Annotated(Asset(asset_href, asset_media_type,
                                    Str("Scene classfication map (SCL)"),
                                    data)))
        ELSE Raise("ValueError", Str("Unexpected asset: ") \o asset_href)

\* lines 143-245.  resolution_to_shape is a function from the distances in
\* the table to <<rows, cols>>, media_type an Optional media type.  The
\* KeyError of a dict lookup carries the key.
ImageAssetFromHref(asset_href, resolution_to_shape, proj_bbox, media_type) ==
    LET asset_media_type == AssetMediaType(asset_href, media_type)
    IN  IF asset_media_type = None
        THEN Raise("Exception",
                   Str("Must supply a media type for asset : ") \o asset_href)
        ELSE IF IsPreview(asset_href)
        THEN Return(Str("preview"),
                    SetBands(Asset(asset_href, asset_media_type[1],
                                   Str("True color preview"),
                                   <<Str("data")>>),
                             RgbBands))
        ELSE LET gsd == ExtractGsd(asset_href)
             IN  IF gsd = None
                 THEN Raise("ValueError",
                            Str("Could not extract gsd from ") \o asset_href)
                 ELSE IF gsd[1] \notin DOMAIN resolution_to_shape
                 THEN Raise("KeyError", gsd[1])
                 ELSE LET shape == resolution_to_shape[gsd[1]]
                      IN  BandOrAuxiliaryAsset(
                              asset_href, asset_media_type[1], gsd[1], shape,
                              proj_bbox, TransformFromBbox(proj_bbox, shape))

(***************************************************************************)
(* create_item                                                             *)
(*                                                                         *)
(* The readers (SafeManifest, ProductMetadata, GranuleMetadata) are        *)
(* collaborators: their attributes are the fields of the input record.     *)
(* The item is a record; assets is the insertion-ordered asset dict and    *)
(* replaced lists the keys whose asset an add_asset call has replaced.     *)
(* A frame pairs the item under construction with the caller's             *)
(* additional_providers list object as the call leaves it.                 *)
(***************************************************************************)
\* dict lookup in an insertion-ordered dict
HasKey(d, key) == \E i \in 1..Len(d) : d[i][1] = key

\* d[key] = value: a present key keeps its position and takes the value
DictSet(d, key, value) ==
    IF HasKey(d, key)
    THEN [i \in 1..Len(d) |-> IF d[i][1] = key THEN <<key, value>> ELSE d[i]]
    ELSE Append(d, <<key, value>>)

RECURSIVE DictFromPairs(_)
\* line 116: dict([...]) of a list of (key, value) pairs
DictFromPairs(pairs) ==
    IF Len(pairs) = 0 THEN <<>>
    ELSE LET last == pairs[Len(pairs)]
         IN  DictSet(DictFromPairs(SubSeq(pairs, 1, Len(pairs) - 1)),
                     last[1], last[2])

\* the merge with the precedence reversed: a key of both takes a's value
DictUnpackMerge_FirstWins(a, b) ==
    [k \in (DOMAIN a) \cup (DOMAIN b) |-> IF k \in DOMAIN a THEN a[k] ELSE b[k]]

\* lines 90-93: {**a, **b}
DictUnpackMerge(a, b) ==
    [k \in (DOMAIN a) \cup (DOMAIN b) |-> IF k \in DOMAIN b THEN b[k] ELSE a[k]]

\* lines 90-93: properties.update(d)
DictUpdate(properties, d) ==
    [k \in (DOMAIN properties) \cup (DOMAIN d) |->
        IF k \in DOMAIN d THEN d[k] ELSE properties[k]]

\* one property assignment made through an extension or common metadata
SetProperty(item, name, value) ==
    [item EXCEPT !.properties =
        DictUpdate(item.properties, Str(name) :> value)]

\* item.add_asset(key, asset): pystac stores the asset under the key,
\* whether or not the key is already present
AddAsset(item, key, asset) ==
    [item EXCEPT !.assets = DictSet(item.assets, key, asset),
                 !.replaced = IF HasKey(item.assets, key)
                              THEN Append(item.replaced, key)
                              ELSE item.replaced]

\* lines 52-56
NewItem(in) ==
    [id |-> in.product_id, properties |-> <<>>, assets |-> <<>>,
     links |-> <<>>, replaced |-> <<>>]

\* lines 60-67.  The providers property holds the list assigned at line 60;
\* line 63 extends the list that the providers getter builds from the
\* property, which is neither the stored list nor the caller's list.
SetCommonMetadata(frame, in) ==
    LET providers == <<SENTINEL_PROVIDER>>
        extended  == IF in.additional_providers # None
                     THEN providers \o in.additional_providers[1]
                     ELSE providers
        item1 == SetProperty(frame.item, "providers", providers)
        item2 == SetProperty(item1, "platform", in.platform)
        item3 == SetProperty(item2, "constellation", SENTINEL_CONSTELLATION)
        item4 == SetProperty(item3, "instruments", SENTINEL_INSTRUMENTS)
    IN  [frame EXCEPT !.item = item4]

\* lines 90-93
MergeS2Properties(frame, in) ==
    [frame EXCEPT !.item.properties =
        DictUpdate(frame.item.properties,
                   DictUnpackMerge(in.product_metadata_dict,
                                   in.granule_metadata_dict))]

\* the values of the enumeration pystac.extensions.sat.OrbitState
OrbitStates == {Str("ascending"), Str("descending"), Str("geostationary")}

\* line 78: OrbitState(value), the member of the enumeration with that
\* value, None when there is none (the constructor raises)
OrbitState(value) == IF value \in OrbitStates THEN Some(value) ELSE None

\* line 78: the text of the ValueError that OrbitState(value) raises
NotAnOrbitState(value) == PyRepr(value) \o Str(" is not a valid OrbitState")

\* lines 73-74
SetCloudCover(frame, in) ==
    [frame EXCEPT !.item = SetProperty(frame.item, "eo:cloud_cover",
                                       in.cloudiness_percentage)]

\* the extensions with the property merge moved ahead of the EPSG check
SetExtensions_MergeFirst(frame, in) ==
    LET item1 == SetCloudCover(frame, in).item
        item2 == SetProperty(item1, "sat:orbit_state",
                             OrbitState(Lower(in.orbit_state))[1])
        item3 == SetProperty(item2, "sat:relative_orbit", in.relative_orbit)
        item4 == SetProperty(item3, "proj:epsg", in.epsg)
    IN  MergeS2Properties([frame EXCEPT !.item = item4], in)

\* lines 73-83, for an orbit state of the enumeration
SetExtensions(frame, in) ==
    LET item1 == SetCloudCover(frame, in).item
        item2 == SetProperty(item1, "sat:orbit_state",
                             OrbitState(Lower(in.orbit_state))[1])
        item3 == SetProperty(item2, "sat:relative_orbit", in.relative_orbit)
        item4 == SetProperty(item3, "proj:epsg", in.epsg)
    IN  [frame EXCEPT !.item = item4]

MetadataAsset(href) ==
    [href |-> href, media_type |-> XML, roles |-> <<Str("metadata")>>]

\* lines 99-111
AddMetadataAssets(frame, in) ==
    LET item1 == AddAsset(frame.item, SAFE_MANIFEST_ASSET_KEY,
                          MetadataAsset(in.manifest_href))
        item2 == AddAsset(item1, PRODUCT_METADATA_ASSET_KEY,
                          MetadataAsset(in.product_metadata_href))
        item3 == AddAsset(item2, GRANULE_METADATA_ASSET_KEY,
                          MetadataAsset(in.granule_metadata_href))
        item4 == AddAsset(item3, INSPIRE_METADATA_ASSET_KEY,
                          MetadataAsset(in.inspire_metadata_href))
        item5 == AddAsset(item4, DATASTRIP_METADATA_ASSET_KEY,
                          MetadataAsset(in.datastrip_metadata_href))
    IN  [frame EXCEPT !.item = item5]

\* lines 116-121: the classification of every image path, in list order
ClassifyImages(in) ==
    [i \in 1..Len(in.image_paths) |->
        ImageAssetFromHref(OsPathJoin(in.granule_href, in.image_paths[i]),
                           in.resolution_to_shape, in.proj_bbox,
                           in.image_media_type)]

RECURSIVE AddImageAssets(_, _)
\* lines 123-125: the item with the image assets added in dict order, up
\* to the first key that the item already holds; passed tells whether
\* every assertion held
AddImageAssets(item, image_assets) ==
    IF Len(image_assets) = 0 THEN [passed |-> TRUE, item |-> item]
    ELSE LET key   == image_assets[1][1]
             asset == image_assets[1][2]
         IN  IF HasKey(item.assets, key)
             THEN [passed |-> FALSE, item |-> item]
             ELSE AddImageAssets(AddAsset(item, key, asset),
                                 SubSeq(image_assets, 2, Len(image_assets)))

\* lines 129-134
AddThumbnail(frame, in) ==
    IF in.thumbnail_href # None
    THEN [frame EXCEPT !.item =
            AddAsset(frame.item, Str("preview"),
                     [href |-> in.thumbnail_href[1], media_type |-> COG,
                      roles |-> <<Str("thumbnail")>>])]
    ELSE frame

\* line 138
AppendLicense(frame) ==
    [frame EXCEPT !.item.links = Append(frame.item.links, SENTINEL_LICENSE)]

\* the outcome of a call: item is the returned item when status is "ok" and
\* the item as the raise left it otherwise (no item is returned then)
Outcome(status, message, frame) ==
    [status |-> status, message |-> message, item |-> frame.item,
     additional_providers |-> frame.additional_providers]

\* lines 84-87: the text of the ValueError for a missing EPSG code
MissingEpsg(granule_href) ==
    Str("Could not determine EPSG code for ") \o granule_href
        \o Str("; which is required.")

\* lines 27-140
CreateItem(in) ==
    LET frame0 == [item |-> NewItem(in),
                   additional_providers |-> in.additional_providers]
        frame1 == SetCommonMetadata(frame0, in)
    IN  IF OrbitState(Lower(in.orbit_state)) = None
        THEN Outcome("ValueError", NotAnOrbitState(Lower(in.orbit_state)),
                     SetCloudCover(frame1, in))
        ELSE
        LET frame2 == SetExtensions(frame1, in)
        IN  IF in.epsg = None
            THEN Outcome("ValueError", MissingEpsg(in.granule_href), frame2)
            ELSE
            LET frame3 == MergeS2Properties(frame2, in)
                frame4 == AddMetadataAssets(frame3, in)
                classified == ClassifyImages(in)
                failed == {i \in 1..Len(classified) :
                              classified[i].status # "ok"}
            IN  IF failed # {}
                THEN LET i == CHOOSE a \in failed : \A b \in failed : a <= b
                     IN  Outcome(classified[i].status, classified[i].message,
                                 frame4)
                ELSE
                LET image_assets ==
                        DictFromPairs([i \in 1..Len(classified) |->
                            <<classified[i].key, classified[i].asset>>])
                    added == AddImageAssets(frame4.item, image_assets)
                    frame5 == [frame4 EXCEPT !.item = added.item]
                IN  IF ~added.passed
                    THEN Outcome("AssertionError", <<>>, frame5)
                    ELSE Outcome("ok", <<>>,
                                 AppendLicense(AddThumbnail(frame5, in)))

(***************************************************************************)
(* Inputs                                                                  *)
(***************************************************************************)
\* the marker parts of the file names: ASCII ones, and band-code look-alikes
\* whose middle character is a letter outside ASCII (U+00E9), the NUL
\* character, the DEL character and a letter outside the basic plane
\* (U+10400)
MarkerParts ==
    {Str(m) : m \in {"", "_PVI", "_B04", "_B8A", "_BXX", "_TCI", "_AOT",
                     "_WVP", "_SCL", "_XYZ", "_PVI_B04", "_B04_TCI",
                     "_BXX_TCI", "_BXX_B04", "_TCI_AOT", "_AOT_TCI",
                     "_AOT_WVP", "_WVP_SCL", "_SCL_B04"}}
    \cup {Str("_B") \o <<c>> \o Str("1_TCI") : c \in {233, 0, 127, 66560}}

ResolutionParts == {Str(r) : r \in {"", "_10m", "_20m"}}

ExtensionParts ==
    {Str(e) : e \in {".jp2", ".JP2", ".tif", ".TIF", ".tiff", ".dat", ""}}

ImageNames ==
    {Str("T") \o m \o r \o e :
        m \in MarkerParts, r \in ResolutionParts, e \in ExtensionParts}

ClassifierHrefs == {OsPathJoin(Str("g.SAFE"), n) : n \in ImageNames}

ResolutionTables ==
    {<<>>, (10 :> <<6, 6>>), (10 :> <<6, 6>>) @@ (20 :> <<3, 3>>)}

ProjBboxes == {<<0, 0, 60, 60>>, <<10, 20, 70, 80>>}

MediaTypes == {None, Some(JPEG2000), Some(COG)}

(***************************************************************************)
(* Behaviour: a caller invokes one of the two functions on some input     *)
(***************************************************************************)
Init ==
    /\ fn = "none"
    /\ args = <<>>
    /\ ret = <<>>

CallImageAssetFromHref ==
    /\ fn = "none"
    /\ \E h \in ClassifierHrefs, t \in ResolutionTables, b \in ProjBboxes,
          m \in MediaTypes :
            /\ fn' = "image_asset_from_href"
            /\ args' = [asset_href |-> h, resolution_to_shape |-> t,
                        proj_bbox |-> b, media_type |-> m]
            /\ ret' = ImageAssetFromHref(h, t, b, m)

\* the image paths of a product; the last one holds a NUL character
ImagePaths ==
    {Str(p) : p \in {"T_B04_10m.jp2", "U_B04_10m.jp2", "T_TCI_10m.jp2",
                     "T_PVI.jp2", "T_XYZ_10m.jp2", "T_AOT_20m.tiff"}}
    \cup {Str("T_B") \o <<0>> \o Str("1_TCI_10m.jp2")}

RECURSIVE SeqsUpTo(_, _)
\* the sequences over S of length at most n
SeqsUpTo(S, n) ==
    IF n = 0 THEN {<<>>}
    ELSE LET shorter == SeqsUpTo(S, n - 1)
         IN  shorter \cup {Append(q, x) : q \in shorter, x \in S}

ProductDicts ==
    {<<>>,
     (Str("s2:product_type") :> Str("S2MSI2A")),
     (Str("s2:product_type") :> Str("S2MSI2A"))
        @@ (Str("s2:source") :> Str("product"))
        @@ (Str("platform") :> Str("from product dict"))}

GranuleDicts ==
    {<<>>,
     (Str("s2:mgrs_tile") :> Str("01CCV"))
        @@ (Str("s2:source") :> Str("granule"))}

\* the orbit states that the product metadata may give: two that
\* lower-case to a value of the enumeration, one that does not, and one
\* whose capital sigma lower-cases to the final form (U+0391 U+03A3)
InputOrbitStates ==
    {Str("DESCENDING"), Str("Ascending"), Str("sideways"), <<913, 931>>}

\* inputs with every combination of the fields; an orbit state other than
\* "DESCENDING" comes with at most one image path
CreateItemInputs ==
    {in \in
        [granule_href : {Str("g.SAFE")},
         additional_providers : {None, Some(<<Str("Microsoft")>>)},
         product_id : {Str("S2A_MSIL2A")},
         platform : {Str("sentinel-2a")},
         orbit_state : InputOrbitStates,
         relative_orbit : {128},
         image_media_type : {None, Some(JPEG2000)},
         image_paths : SeqsUpTo(ImagePaths, MaxPaths),
         product_metadata_dict : ProductDicts,
         cloudiness_percentage : {5},
         epsg : {None, Some(32701)},
         resolution_to_shape : {(10 :> <<6, 6>>) @@ (20 :> <<3, 3>>)},
         proj_bbox : {<<0, 0, 60, 60>>},
         granule_metadata_dict : GranuleDicts,
         manifest_href : {Str("g.SAFE/manifest.safe")},
         product_metadata_href : {Str("g.SAFE/MTD_MSIL2A.xml")},
         granule_metadata_href : {Str("g.SAFE/MTD_TL.xml")},
         inspire_metadata_href : {Str("g.SAFE/INSPIRE.xml")},
         datastrip_metadata_href : {Str("g.SAFE/MTD_DS.xml")},
         thumbnail_href : {None, Some(Str("g.SAFE/preview.tif"))}] :
        in.orbit_state = Str("DESCENDING") \/ Len(in.image_paths) <= 1}

CallCreateItem ==
    /\ fn = "none"
    /\ \E in \in CreateItemInputs :
            /\ fn' = "create_item"
            /\ args' = in
            /\ ret' = CreateItem(in)

Next == CallImageAssetFromHref \/ CallCreateItem

Spec == Init /\ [][Next]_vars

Classified == fn = "image_asset_from_href"

Created == fn = "create_item"

(***************************************************************************)
(* Properties of create_item                                               *)
(***************************************************************************)
\* the classifications of the image paths of the call, in list order
Classifications == ClassifyImages(args)

AllImagesClassified ==
    \A i \in 1..Len(Classifications) : Classifications[i].status = "ok"

\* two different image paths of the list classify to the same key
SomeKeyCollides ==
    \E i, j \in 1..Len(Classifications) :
        /\ args.image_paths[i] # args.image_paths[j]
        /\ Classifications[i].status = "ok"
        /\ Classifications[j].status = "ok"
        /\ Classifications[i].key = Classifications[j].key

\* the orbit state of the call lower-cases to a value of the enumeration
ValidOrbitState == Lower(args.orbit_state) \in OrbitStates

\* C1: when the orbit state is valid, the EPSG code is present and every
\* image path classifies, the assembly succeeds if no two different paths
\* classify to the same key and raises the invariant violation
\* (AssertionError) if two do.
C1_KeyCollisionRaises ==
    (Created /\ ValidOrbitState /\ args.epsg # None /\ AllImagesClassified) =>
        IF SomeKeyCollides THEN ret.status = "AssertionError"
        ELSE ret.status = "ok"

\* C2: no add_asset call of create_item replaces an asset already stored
\* under the same key.
C2_NoInsertionReplaces ==
    Created => ret.item.replaced = <<>>

\* the properties that lines 60-83 set
PresetKeys ==
    {Str(k) : k \in {"providers", "platform", "constellation", "instruments",
                     "eo:cloud_cover", "sat:orbit_state",
                     "sat:relative_orbit", "proj:epsg"}}

\* the call raised before any property merge, asset insertion or link
\* append, and left the caller's additional_providers list as it was
NothingAssembled ==
    /\ ret.status # "ok"
    /\ DOMAIN ret.item.properties \subseteq PresetKeys
    /\ ret.item.properties[Str("platform")] = args.platform
    /\ ret.item.assets = <<>>
    /\ ret.item.links = <<>>
    /\ ret.additional_providers = args.additional_providers

EndsWith(s, suffix) ==
    /\ Len(s) >= Len(suffix)
    /\ SubSeq(s, Len(s) - Len(suffix) + 1, Len(s)) = suffix

\* C3 as stated: without an EPSG code create_item raises the ValueError
\* for the missing EPSG code, whatever the other inputs are, before any
\* property merge, asset insertion or link append, and leaves the caller's
\* additional_providers list as it was.
C3_MissingEpsgFails ==
    (Created /\ args.epsg = None) =>
        /\ ret.status = "ValueError"
        /\ ret.message = MissingEpsg(args.granule_href)
        /\ NothingAssembled

\* C3 as amended: without an EPSG code create_item raises a ValueError
\* before any property merge, asset insertion or link append and leaves
\* the caller's additional_providers list as it was; the error is the one
\* for the missing EPSG code, raised with every preset property written,
\* when the orbit state lower-cases to a value of the enumeration, and
\* otherwise the enumeration's error, raised before the EPSG code is read.
C3_MissingEpsgOrOrbitStateFails ==
    (Created /\ args.epsg = None) =>
        /\ ret.status = "ValueError"
        /\ NothingAssembled
        /\ ValidOrbitState =>
              /\ ret.message = MissingEpsg(args.granule_href)
              /\ DOMAIN ret.item.properties = PresetKeys
        /\ ~ValidOrbitState =>
              /\ EndsWith(ret.message, Str(" is not a valid OrbitState"))
              /\ Str("sat:orbit_state") \notin DOMAIN ret.item.properties
              /\ Str("proj:epsg") \notin DOMAIN ret.item.properties

C3_Witness ==
    /\ Created
    /\ args.epsg = None
    /\ args.orbit_state = Str("Ascending")
    /\ args.additional_providers # None
    /\ Str("platform") \in DOMAIN args.product_metadata_dict
    /\ args.granule_metadata_dict # <<>>
    /\ Len(args.image_paths) > 0
    /\ args.thumbnail_href # None
    /\ ret.status = "ValueError"
    /\ ret.message = MissingEpsg(args.granule_href)

\* C9: in a returned record every key of the product and granule metadata
\* dictionaries is a property, a key of the granule dictionary holds the
\* granule value, and a property set before the merge keeps its value
\* unless one of the two dictionaries has its key.
C9_PropertyMerge ==
    (Created /\ ret.status = "ok") =>
        LET p     == args.product_metadata_dict
            g     == args.granule_metadata_dict
            props == ret.item.properties
            kept  == PresetKeys \ ((DOMAIN p) \cup (DOMAIN g))
        IN  /\ (DOMAIN p) \cup (DOMAIN g) \subseteq DOMAIN props
            /\ \A k \in DOMAIN g : props[k] = g[k]
            /\ kept \subseteq DOMAIN props
            /\ Str("providers") \in kept =>
                    props[Str("providers")][1] = SENTINEL_PROVIDER
            /\ Str("platform") \in kept =>
                    props[Str("platform")] = args.platform
            /\ Str("eo:cloud_cover") \in kept =>
                    props[Str("eo:cloud_cover")] = args.cloudiness_percentage
            /\ Str("sat:orbit_state") \in kept =>
                    props[Str("sat:orbit_state")] = Lower(args.orbit_state)
            /\ Str("sat:relative_orbit") \in kept =>
                    props[Str("sat:relative_orbit")] = args.relative_orbit
            /\ Str("proj:epsg") \in kept =>
                    props[Str("proj:epsg")] = args.epsg

C9_Witness ==
    /\ Created
    /\ ret.status = "ok"
    /\ Str("s2:source") \in DOMAIN args.product_metadata_dict
    /\ Str("s2:source") \in DOMAIN args.granule_metadata_dict
    /\ ret.item.properties[Str("s2:source")] = Str("granule")
    /\ ret.item.properties[Str("platform")] = Str("from product dict")
    /\ ret.item.properties[Str("eo:cloud_cover")] = 5
    /\ ret.item.properties[Str("sat:orbit_state")] = Str("ascending")
    /\ \E i \in 1..Len(args.image_paths) : Contains(args.image_paths[i], <<0>>)

(***************************************************************************)
(* Properties of image_asset_from_href                                     *)
(***************************************************************************)
Href == args.asset_href

\* the media type is supplied or the extension is one of the known ones
MediaTypeKnown ==
    \/ args.media_type # None
    \/ Lower(SplitExt(Href)[2]) \in {Str(".jp2"), Str(".tif"), Str(".tiff")}

\* the text of the exception for a media type that cannot be determined
MediaTypeError == Str("Must supply a media type for asset : ") \o Href

HasPvi == Contains(Href, Str("_PVI"))

\* the positions of Href where _B<2 word characters>_ matches
BandMatches == BandPatternMatches(Href)

\* the band code of the leftmost match
MatchedBandCode ==
    LET i == CHOOSE a \in BandMatches : \A b \in BandMatches : a <= b
    IN  SubSeq(Href, i + 1, i + 3)

AuxiliaryMarkers == <<Str("_TCI_"), Str("_AOT_"), Str("_WVP_"), Str("_SCL_")>>

AuxiliaryPrefixes == <<Str("visual-"), Str("AOT-"), Str("WVP-"), Str("SCL-")>>

\* the rules of the cascade that match Href, numbered in priority order:
\* 1 preview, 2 band, 3..6 the auxiliary images
MatchingRules ==
    {r \in 1..6 :
        \/ r = 1 /\ HasPvi
        \/ r = 2 /\ BandMatches # {}
        \/ r > 2 /\ Contains(Href, AuxiliaryMarkers[r - 2])}

EarliestRule == CHOOSE r \in MatchingRules : \A q \in MatchingRules : r <= q

StartsWith(s, prefix) == SubSeq(s, 1, Len(prefix)) = prefix

\* key is a key that rule r produces for Href
KeyOfRule(r, key) ==
    \/ r = 1 /\ key = Str("preview")
    \/ r = 2 /\ key = MatchedBandCode
    \/ r > 2 /\ StartsWith(key, AuxiliaryPrefixes[r - 2])

\* a returned key is the key of the earliest rule, in the order _PVI, band
\* code, _TCI_, _AOT_, _WVP_, _SCL_, that the path matches
ReturnedKeyOfEarliestRule ==
    ret.status = "ok" =>
        /\ MatchingRules # {}
        /\ KeyOfRule(EarliestRule, ret.key)

\* C4 as stated: a returned key is the key of the earliest matching rule,
\* and every path with both _PVI and a band code classifies as preview.
C4_PreviewWinsOnEveryPath ==
    Classified =>
        /\ ReturnedKeyOfEarliestRule
        /\ (HasPvi /\ BandMatches # {}) =>
              ret.status = "ok" /\ ret.key = Str("preview")

\* C4 as amended: a returned key is the key of the earliest matching rule;
\* a path with both _PVI and a band code classifies as preview when its
\* media type can be determined and otherwise fails with the media type
\* exception, which is raised before any rule is tested.
C4_FirstMatchWins ==
    Classified =>
        /\ ReturnedKeyOfEarliestRule
        /\ (HasPvi /\ BandMatches # {}) =>
              IF MediaTypeKnown
              THEN ret.status = "ok" /\ ret.key = Str("preview")
              ELSE ret.status = "Exception" /\ ret.message = MediaTypeError

C4_Witness ==
    /\ Classified
    /\ HasPvi
    /\ BandMatches # {}
    /\ MatchedBandCode = Str("B04")
    /\ ret.status = "ok"
    /\ ret.key = Str("preview")

\* C5: an href whose media type is known and that matches no marker fails
\* with the ValueError "Unexpected asset" carrying the href, whatever the
\* resolution table and the projected bounding box.
C5_UnclassifiedError ==
    (Classified /\ MediaTypeKnown /\ MatchingRules = {}) =>
        /\ ret.status = "ValueError"
        /\ ret.message = Str("Unexpected asset: ") \o Href

\* C6: a returned asset has the supplied media type when one is supplied,
\* else JPEG2000 for .jp2 and GEOTIFF for .tif and .tiff in any case; with
\* no supplied type and another extension the call raises the media type
\* exception, role marker or not.
C6_MediaType ==
    Classified =>
        LET ext   == Lower(SplitExt(Href)[2])
            isJp2 == ext = Str(".jp2")
            isTif == ext = Str(".tif") \/ ext = Str(".tiff")
        IN  /\ (ret.status = "ok" /\ args.media_type # None) =>
                    ret.asset.media_type = args.media_type[1]
            /\ (ret.status = "ok" /\ args.media_type = None) =>
                    /\ isJp2 => ret.asset.media_type = JPEG2000
                    /\ isTif => ret.asset.media_type = GEOTIFF
            /\ (args.media_type = None /\ ~isJp2 /\ ~isTif)
                    => /\ ret.status = "Exception"
                       /\ ret.message = MediaTypeError

C6_Witness ==
    /\ Classified
    /\ args.media_type = None
    /\ SplitExt(Href)[2] = Str(".dat")
    /\ HasPvi
    /\ ret.status = "Exception"

\* the 3 characters immediately before the file extension
SuffixBeforeExtension ==
    LET root == SplitExt(Href)[1]
    IN  SubSeq(root, Len(root) - 2, Len(root))

\* C7: the key of a true-color, AOT, WVP or SCL asset is the role prefix
\* followed by the 3 characters immediately before the file extension.
C7_SuffixKey ==
    (Classified /\ ret.status = "ok" /\ EarliestRule > 2) =>
        ret.key = AuxiliaryPrefixes[EarliestRule - 2] \o SuffixBeforeExtension

\* the distance that the resolution part of the file name encodes
EncodedGsd ==
    IF Contains(Href, Str("_10m")) THEN 10
    ELSE IF Contains(Href, Str("_20m")) THEN 20
    ELSE 0

\* a returned asset that is not the preview carries the distance encoded
\* in the file name, the shape of that distance in the resolution table,
\* the supplied projected bounding box and the geotransform of that
\* bounding box and shape; the preview carries none of them
AnnotatedUnlessPreview ==
    /\ (ret.status = "ok" /\ ret.key # Str("preview")) =>
          /\ EncodedGsd \in DOMAIN args.resolution_to_shape
          /\ ret.asset.gsd = Some(EncodedGsd)
          /\ ret.asset.proj_shape =
                Some(args.resolution_to_shape[EncodedGsd])
          /\ ret.asset.proj_bbox = Some(args.proj_bbox)
          /\ ret.asset.proj_transform =
                Some(TransformFromBbox(args.proj_bbox,
                        args.resolution_to_shape[EncodedGsd]))
    /\ (ret.status = "ok" /\ ret.key = Str("preview")) =>
          /\ ret.asset.gsd = None
          /\ ret.asset.proj_shape = None
          /\ ret.asset.proj_bbox = None
          /\ ret.asset.proj_transform = None

\* C8 as stated: the projection fields are on every returned asset but the
\* preview, and the classification of every path with _PVI succeeds,
\* whatever resolution the name encodes.
C8_PreviewAlwaysSucceeds ==
    Classified =>
        /\ AnnotatedUnlessPreview
        /\ HasPvi => ret.status = "ok" /\ ret.key = Str("preview")

\* C8 as amended: the projection fields are on every returned asset but
\* the preview; the classification of a path with _PVI succeeds, whatever
\* resolution the name encodes, when its media type can be determined and
\* otherwise fails with the media type exception.
C8_ProjectionFields ==
    Classified =>
        /\ AnnotatedUnlessPreview
        /\ HasPvi =>
              IF MediaTypeKnown
              THEN ret.status = "ok" /\ ret.key = Str("preview")
              ELSE ret.status = "Exception" /\ ret.message = MediaTypeError

C8_Witness ==
    /\ Classified
    /\ ret.status = "ok"
    /\ ret.key = Str("B04")
    /\ ret.asset.gsd = Some(20)
    /\ ret.asset.proj_shape = Some(<<3, 3>>)
    /\ ret.asset.proj_bbox = Some(<<10, 20, 70, 80>>)

\* a path without _PVI whose leftmost band-code match is not a band code
UnknownBandCode ==
    /\ ~HasPvi
    /\ BandMatches # {}
    /\ MatchedBandCode \notin DOMAIN SENTINEL_BANDS

\* C10 as stated: such a path always fails with a lookup error.
C10_UnknownBandCodeLookupError ==
    (Classified /\ UnknownBandCode) => ret.status = "KeyError"

\* C10 as amended: such a path always fails and never falls through to the
\* later rules: with the media type exception when the media type cannot
\* be determined, else with the error of extract_gsd when the name encodes
\* no distance, else with the lookup error for the distance when the
\* resolution table lacks it, else with the lookup error for the band
\* code; a band key is returned only for a code of the band table.
C10_UnknownBandCodeFails ==
    Classified =>
        /\ UnknownBandCode =>
              IF ~MediaTypeKnown
              THEN ret.status = "Exception" /\ ret.message = MediaTypeError
              ELSE IF EncodedGsd = 0
              THEN ret.status = "ValueError"
                   /\ ~StartsWith(ret.message, Str("Unexpected asset"))
              ELSE IF EncodedGsd \notin DOMAIN args.resolution_to_shape
              THEN ret.status = "KeyError" /\ ret.message = EncodedGsd
              ELSE ret.status = "KeyError" /\ ret.message = MatchedBandCode
        /\ (ret.status = "ok" /\ ~HasPvi /\ BandMatches # {}) =>
              ret.key \in DOMAIN SENTINEL_BANDS

\* a code with a letter outside the basic plane, on a path that also has
\* the _TCI_ marker
C10_Witness ==
    /\ Classified
    /\ UnknownBandCode
    /\ Contains(Href, Str("_TCI_"))
    /\ MediaTypeKnown
    /\ EncodedGsd \in DOMAIN args.resolution_to_shape
    /\ ret.status = "KeyError"
    /\ ret.message = <<66, 66560, 49>>

====
